---- MODULE Spec2Model ----
(***************************************************************************)
(* Model of the M5Stick BLE data logger: the BLE client and scanner        *)
(* (app/services/bluetooth.py), the CSV recorder                           *)
(* (app/services/recorder.py) and the main window (app/ui/main_window.py). *)
(*                                                                         *)
(* Byte strings are sequences of 0..255, text is a sequence of Unicode     *)
(* code points.                                                            *)
(***************************************************************************)
EXTENDS Integers, Sequences, FiniteSets, TLC

(***************************************************************************)
(* Text helpers: str.strip, str.split, str.startswith, bytes.decode.       *)
(***************************************************************************)

\* str.isspace() of one code point: what str.strip() removes.
IsSpace(c) ==
    \/ c \in 9..13
    \/ c \in 28..32
    \/ c \in {133, 160, 5760, 8232, 8233, 8239, 8287, 12288}
    \/ c \in 8192..8202

RECURSIVE LStrip(_)
LStrip(s) ==
    IF s # <<>> /\ IsSpace(s[1]) THEN LStrip(Tail(s)) ELSE s

RECURSIVE RStrip(_)
RStrip(s) ==
    IF s # <<>> /\ IsSpace(s[Len(s)]) THEN RStrip(SubSeq(s, 1, Len(s) - 1)) ELSE s

\* str.strip()
Strip(s) == RStrip(LStrip(s))

\* index of the first occurrence of c in s, 0 when there is none
RECURSIVE IndexFrom(_, _, _)
IndexFrom(s, c, i) ==
    IF i > Len(s) THEN 0
    ELSE IF s[i] = c THEN i
    ELSE IndexFrom(s, c, i + 1)

\* str.split(sep): always one more part than there are separators
RECURSIVE Split(_, _)
Split(s, sep) ==
    LET i == IndexFrom(s, sep, 1) IN
    IF i = 0 THEN <<s>>
    ELSE <<SubSeq(s, 1, i - 1)>> \o Split(SubSeq(s, i + 1, Len(s)), sep)

\* str.split(sep, 1): cut at the first separator only
SplitOnce(s, sep) ==
    LET i == IndexFrom(s, sep, 1) IN
    IF i = 0 THEN <<s>>
    ELSE <<SubSeq(s, 1, i - 1), SubSeq(s, i + 1, Len(s))>>

\* str.startswith(p)
StartsWith(s, p) ==
    Len(s) >= Len(p) /\ SubSeq(s, 1, Len(p)) = p

Cont(x) == x \in 128..191

\* One step of the UTF-8 decoder at byte i of d: a code point and the bytes
\* it takes, or an invalid sequence and the bytes it covers.
Utf8Step(d, i) ==
    LET b0 == d[i]
        B(k) == IF i + k <= Len(d) THEN d[i + k] ELSE -1
        Bad(k) == [ok |-> FALSE, n |-> k, cp |-> -1]
    IN
    IF b0 < 128 THEN [ok |-> TRUE, n |-> 1, cp |-> b0]
    ELSE IF b0 \in 194..223 THEN
        IF Cont(B(1))
        THEN [ok |-> TRUE, n |-> 2, cp |-> (b0 - 192) * 64 + (B(1) - 128)]
        ELSE Bad(1)
    ELSE IF b0 \in 224..239 THEN
        LET lo == IF b0 = 224 THEN 160 ELSE 128
            hi == IF b0 = 237 THEN 159 ELSE 191
        IN
        IF ~(B(1) \in lo..hi) THEN Bad(1)
        ELSE IF ~Cont(B(2)) THEN Bad(2)
        ELSE [ok |-> TRUE, n |-> 3,
              cp |-> (b0 - 224) * 4096 + (B(1) - 128) * 64 + (B(2) - 128)]
    ELSE IF b0 \in 240..244 THEN
        LET lo == IF b0 = 240 THEN 144 ELSE 128
            hi == IF b0 = 244 THEN 143 ELSE 191
        IN
        IF ~(B(1) \in lo..hi) THEN Bad(1)
        ELSE IF ~Cont(B(2)) THEN Bad(2)
        ELSE IF ~Cont(B(3)) THEN Bad(3)
        ELSE [ok |-> TRUE, n |-> 4,
              cp |-> (b0 - 240) * 262144 + (B(1) - 128) * 4096
                     + (B(2) - 128) * 64 + (B(3) - 128)]
    ELSE Bad(1)

RECURSIVE Utf8From(_, _)
Utf8From(d, i) ==
    IF i > Len(d) THEN [ok |-> TRUE, text |-> <<>>]
    ELSE LET s == Utf8Step(d, i)
             rest == Utf8From(d, i + s.n)
         IN [ok |-> s.ok /\ rest.ok,
             text |-> IF s.ok THEN <<s.cp>> \o rest.text ELSE rest.text]

\* data.decode(): ok = FALSE stands for UnicodeDecodeError
Decode(d) == Utf8From(d, 1)

\* data.decode(errors="ignore"): invalid sequences are left out
DecodeIgnore(d) == Utf8From(d, 1).text

(***************************************************************************)
(* float(v) on text: whether it parses, and the value it yields. The value *)
(* is kept exact as sign * mant * 10^exp (no binary rounding).             *)
(***************************************************************************)

IsDigit(c) == c \in 48..57

\* digits, single underscores allowed between digits
IsDigitPart(s) ==
    /\ s # <<>>
    /\ IsDigit(s[1])
    /\ IsDigit(s[Len(s)])
    /\ \A i \in 1..Len(s) : IsDigit(s[i]) \/ s[i] = 95
    /\ \A i \in 1..(Len(s) - 1) : ~(s[i] = 95 /\ s[i + 1] = 95)

Unsigned(s) ==
    IF s # <<>> /\ s[1] \in {43, 45} THEN Tail(s) ELSE s

IsExponent(s) ==
    \/ s = <<>>
    \/ /\ s[1] \in {69, 101}
       /\ IsDigitPart(Unsigned(Tail(s)))

IsMantissa(m) ==
    LET j == IndexFrom(m, 46, 1) IN
    IF j = 0 THEN IsDigitPart(m)
    ELSE LET a == SubSeq(m, 1, j - 1)
             b == SubSeq(m, j + 1, Len(m))
         IN /\ a = <<>> \/ IsDigitPart(a)
            /\ b = <<>> \/ IsDigitPart(b)
            /\ ~(a = <<>> /\ b = <<>>)

\* lower-case an ASCII letter
Lower(c) == IF c \in 65..90 THEN c + 32 ELSE c

LowerAll(s) == [i \in 1..Len(s) |-> Lower(s[i])]

\* "inf", "infinity", "nan" in any case
IsSpecialFloat(s) ==
    LowerAll(s) \in { <<105, 110, 102>>,
                      <<105, 110, 102, 105, 110, 105, 116, 121>>,
                      <<110, 97, 110>> }

\* position where the exponent starts (Len+1 when there is none)
ExpStart(s) ==
    LET e1 == IndexFrom(s, 101, 1)
        e2 == IndexFrom(s, 69, 1)
    IN IF e1 = 0 /\ e2 = 0 THEN Len(s) + 1
       ELSE IF e1 = 0 THEN e2
       ELSE IF e2 = 0 THEN e1
       ELSE IF e1 < e2 THEN e1 ELSE e2

\* float(v) does not raise ValueError
IsFloat(v) ==
    LET u == Unsigned(Strip(v))
        k == ExpStart(u)
    IN \/ IsSpecialFloat(u)
       \/ /\ IsMantissa(SubSeq(u, 1, k - 1))
          /\ IsExponent(SubSeq(u, k, Len(u)))

\* value of a digit part, underscores skipped
RECURSIVE DigitsVal(_, _)
DigitsVal(s, acc) ==
    IF s = <<>> THEN acc
    ELSE IF s[1] = 95 THEN DigitsVal(Tail(s), acc)
    ELSE DigitsVal(Tail(s), acc * 10 + (s[1] - 48))

NumDigits(s) == Cardinality({i \in 1..Len(s) : IsDigit(s[i])})

RECURSIVE Normalise(_, _)
Normalise(m, e) ==
    IF m = 0 THEN [mant |-> 0, exp |-> 0]
    ELSE IF m % 10 = 0 THEN Normalise(m \div 10, e + 1)
    ELSE [mant |-> m, exp |-> e]

\* float(v) for text that parses
FloatOf(v) ==
    LET t == Strip(v)
        neg == t # <<>> /\ t[1] = 45
        u == Unsigned(t)
    IN
    IF IsSpecialFloat(u)
    THEN [kind |-> IF Lower(u[1]) = 110 THEN "nan" ELSE "inf",
          neg |-> neg, mant |-> 0, exp |-> 0]
    ELSE LET k == ExpStart(u)
             m == SubSeq(u, 1, k - 1)
             x == SubSeq(u, k, Len(u))
             j == IndexFrom(m, 46, 1)
             a == IF j = 0 THEN m ELSE SubSeq(m, 1, j - 1)
             b == IF j = 0 THEN <<>> ELSE SubSeq(m, j + 1, Len(m))
             ev == IF x = <<>> THEN 0
                   ELSE LET xs == Tail(x) IN
                        IF xs[1] = 45 THEN 0 - DigitsVal(Unsigned(xs), 0)
                        ELSE DigitsVal(Unsigned(xs), 0)
             nz == Normalise(DigitsVal(a \o b, 0), ev - NumDigits(b))
         IN [kind |-> "num", neg |-> neg, mant |-> nz.mant, exp |-> nz.exp]

(***************************************************************************)
(* Optional values (None or a value) and signals.                          *)
(***************************************************************************)

None == <<>>
Some(x) == <<x>>
IsNone(o) == o = <<>>
Get(o) == o[1]

\* one emission of a Qt signal
Sig(name, arg) == [sig |-> name, arg |-> arg]

(***************************************************************************)
(* BLEClient notification callbacks, as functions of the client's state    *)
(* and the notified bytes; they yield the signals emitted, in order.       *)
(***************************************************************************)

\* one "<h": little-endian signed 16-bit
Int16LE_unsigned(lo, hi) == lo + 256 * hi

Int16LE(lo, hi) ==
    LET u == lo + 256 * hi IN
    IF u >= 32768 THEN u - 65536 ELSE u

\* struct.iter_unpack("<hhhhhh", data): one 6-tuple per 12 bytes
IterUnpack(data) ==
    [k \in 1..(Len(data) \div 12) |->
        [j \in 1..6 |-> Int16LE(data[12 * (k - 1) + 2 * j - 1],
                                data[12 * (k - 1) + 2 * j])]]

\* BLEClient._raw_cb with time.time()*1000 read as ts_ms
RawCb_anylen(data, ts_ms) ==
    LET vals == IterUnpack(data) IN
    <<Sig("packet_ready", [k \in 1..Len(vals) |-> <<ts_ms>> \o vals[k]])>>

RawCb(data, ts_ms) ==
    IF Len(data) # 120 THEN <<>>
    ELSE LET vals == IterUnpack(data) IN
         <<Sig("packet_ready", [k \in 1..Len(vals) |-> <<ts_ms>> \o vals[k]])>>

\* BLEClient._feat_cb: the new self._feat_headers and the signals emitted
FeatCb_reheader(feat_headers, data) ==
    LET line == Strip(DecodeIgnore(data))
        toks == Split(line, 44)
        hs == [i \in 1..Len(toks) |-> Strip(toks[i])]
    IN
    IF line = <<>> THEN [feat_headers |-> feat_headers, emits |-> <<>>]
    ELSE IF IsNone(feat_headers) \/ ~(\A i \in 1..Len(toks) : IsFloat(toks[i]))
    THEN [feat_headers |-> Some(hs), emits |-> <<Sig("feature_header", hs)>>]
    ELSE [feat_headers |-> feat_headers,
          emits |-> <<Sig("feature_values",
                          [i \in 1..Len(toks) |-> FloatOf(toks[i])])>>]

FeatCb(feat_headers, data) ==
    LET line == Strip(DecodeIgnore(data))
        toks == Split(line, 44)
    IN
    IF line = <<>> THEN [feat_headers |-> feat_headers, emits |-> <<>>]
    ELSE IF IsNone(feat_headers)
    THEN LET hs == [i \in 1..Len(toks) |-> Strip(toks[i])] IN
         [feat_headers |-> Some(hs), emits |-> <<Sig("feature_header", hs)>>]
    ELSE IF \A i \in 1..Len(toks) : IsFloat(toks[i])
    THEN [feat_headers |-> feat_headers,
          emits |-> <<Sig("feature_values",
                          [i \in 1..Len(toks) |-> FloatOf(toks[i])])>>]
    ELSE [feat_headers |-> feat_headers, emits |-> <<>>]

\* "PREDICT:"
PREDICT_PREFIX == <<80, 82, 69, 68, 73, 67, 84, 58>>

\* BLEClient._pred_cb
PredCb_lastcolon(data) ==
    LET d == Decode(data)
        msg == Strip(d.text)
        parts == Split(msg, 58)
    IN
    IF d.ok /\ StartsWith(msg, PREDICT_PREFIX)
    THEN <<Sig("prediction_ready", parts[Len(parts)])>>
    ELSE <<>>

PredCb(data) ==
    LET d == Decode(data)
        msg == Strip(d.text)
    IN
    IF ~d.ok THEN <<>>
    ELSE IF StartsWith(msg, PREDICT_PREFIX)
    THEN <<Sig("prediction_ready", SplitOnce(msg, 58)[2])>>
    ELSE <<>>

(***************************************************************************)
(* CSVRecorder: the lines written to its file (the header row first), the  *)
(* closed flag, and the state of the underlying file object.               *)
(***************************************************************************)

default_headers ==
    <<"segment", "timestamp_ms",
      "acc_x", "acc_y", "acc_z", "gyro_x", "gyro_y", "gyro_z">>

\* CSVRecorder.__init__: `headers or default_headers`, header row written
CSVRecorder(prefix, headers) ==
    [prefix |-> prefix,
     lines |-> <<IF headers = <<>> THEN default_headers ELSE headers>>,
     closed |-> FALSE,
     file_open |-> TRUE,
     file_closes |-> 0,
     raised |-> FALSE]

\* self._writer.writerows(rows): ValueError on a closed file
writerows(r, rows) ==
    IF r.file_open THEN [r EXCEPT !.lines = @ \o rows]
    ELSE [r EXCEPT !.raised = TRUE]

\* CSVRecorder.add_rows
add_rows_unguarded(r, rows) == writerows(r, rows)

add_rows(r, rows) ==
    IF ~r.closed THEN writerows(r, rows) ELSE r

\* CSVRecorder.add_rows_with_prefix
add_rows_with_prefix(r, prefix, rows) ==
    IF ~r.closed
    THEN writerows(r, [i \in 1..Len(rows) |-> <<prefix>> \o rows[i]])
    ELSE r

\* CSVRecorder.close
close_unguarded(r) ==
    [r EXCEPT !.file_open = FALSE, !.file_closes = @ + 1, !.closed = TRUE]

close(r) ==
    IF ~r.closed
    THEN [r EXCEPT !.file_open = FALSE, !.file_closes = @ + 1, !.closed = TRUE]
    ELSE r

(***************************************************************************)
(* State.                                                                  *)
(***************************************************************************)

VARIABLES
    client,     \* the BLEClient of the current session and its worker's position
    link,       \* the BleakClient's link and the tasks waiting on the worker's loop
    win,        \* MainWindow fields
    leaked,     \* a CSVRecorder was dropped by the window while still open
    uiQueue,    \* queued signals waiting for the UI thread, oldest first
    obs,        \* what the current session has done so far
    cbIn,       \* the bytes last handed to a notification callback
    emitted,    \* signals emitted by a client that has no receiver connected
    scanner,    \* the DeviceScanner and its worker
    rec,        \* a CSVRecorder driven directly
    used,       \* how much of the model's bounds the run has used
    env         \* what the device and the library may do in this run (fixed)

vars ==
    <<client, link, win, leaked, uiQueue, obs, cbIn, emitted, scanner, rec,
      used, env>>

\* bounds of the model
MaxFrames == 2
MaxSegment == 2
MaxDevices == 3
MaxCalls == 3

\* the three characteristics: STREAM_UUID, FEATURE_UUID, PRED_UUID
Chars == {"raw", "feat", "pred"}
CharOrder == <<"raw", "feat", "pred">>

\* values time.time()*1000 may give
Timestamps == {1000, 2000}

\* devices BleakScanner.discover may report: (address, name, rssi), the
\* name None for a device that advertises none
Devices ==
    { [address |-> "AA:01", name |-> Some("M5Stick"), rssi |-> -40],
      [address |-> "BB:02", name |-> None, rssi |-> 0] }

\* BLEDeviceInfo(address=d.address, name=d.name or "Unnamed", rssi=...)
BLEDeviceInfo(d) ==
    [address |-> d.address,
     name |-> IF IsNone(d.name) \/ Get(d.name) = "" THEN "Unnamed" ELSE Get(d.name),
     rssi |-> d.rssi]

Pc(op, ch) == [op |-> op, ch |-> ch]

NoClient ==
    [pc |-> Pc("none", ""), should_stop |-> FALSE, feat_headers |-> None,
     bleak |-> FALSE, char_uuids |-> {}]

\* BLEClient.__init__ followed by start(): the worker runs _async_main, whose
\* first await (connect) is in flight
BLEClient ==
    [pc |-> Pc("connect", ""), should_stop |-> FALSE, feat_headers |-> None,
     bleak |-> TRUE, char_uuids |-> {}]

NoLink ==
    [is_connected |-> FALSE, notifying |-> {},
     pendingDisc |-> FALSE, pendingCb |-> FALSE]

NoObs ==
    [disc_emits |-> 0, reason |-> None, error |-> None, crashed |-> FALSE,
     started |-> {}, stop_calls |-> {}, disc_called |-> FALSE,
     dead_calls |-> FALSE, hdr_emits |-> 0, polled |-> FALSE]

\* MainWindow.__init__
MainWindow ==
    [client |-> FALSE, raw_rec |-> None, feat_rec |-> None,
     feat_headers |-> None,
     recording |-> FALSE, segment |-> 1, status |-> <<"Idle">>,
     btn_scan |-> TRUE, btn_connect |-> TRUE, btn_disconnect |-> FALSE,
     btn_start |-> TRUE, btn_stop |-> FALSE,
     device_list |-> <<>>, currentItem |-> 0]

NoScanner == [pc |-> "none", found |-> 0, finished |-> 0]

NoRec == CSVRecorder("session", <<>>)

NoCbIn == [kind |-> "none", data |-> <<>>, ts |-> 0, before |-> None, out |-> <<>>]

NoUsed == [frames |-> 0, calls |-> 0, closes |-> 0, late |-> 0]

(***************************************************************************)
(* BLEClient._async_main on the worker thread. client.pc names the await   *)
(* that is in flight; a worker step completes it and runs the code up to   *)
(* the next await. Tasks of the worker's event loop (notification and      *)
(* disconnect callbacks, a disconnect scheduled from the UI thread) run    *)
(* between worker steps, that is, while an await is in flight.             *)
(***************************************************************************)

Live == client.pc.op \notin {"none", "done"}

Idx(c) == CHOOSE i \in 1..3 : CharOrder[i] = c

Await(pc) ==
    [next |-> pc, emit |-> None, error |-> None, stops |-> {}, dead |-> FALSE]

\* a BleakError raised where the call is made: the except branch
Raised(text, stops, dead) ==
    [next |-> Pc("done", ""), emit |-> Some(text), error |-> Some(text),
     stops |-> stops, dead |-> dead]

\* The code of _async_main from program point k to its next await:
\*   1..3  start_notify for raw, feat, pred if present on the device
\*   4     the polling loop's test, then the teardown's test
\*   5..7  stop_notify for raw, feat, pred if present on the device
\*   8     disconnect
\* start_notify and stop_notify raise BleakError when called on a link that
\* is not connected.
RECURSIVE Run_stopall(_, _, _)
Run_stopall(k, cl, lk) ==
    IF k \in 1..3 THEN
        IF CharOrder[k] \notin cl.char_uuids THEN Run_stopall(k + 1, cl, lk)
        ELSE IF lk.is_connected THEN Await(Pc("start", CharOrder[k]))
        ELSE Raised("Not connected", {}, FALSE)
    ELSE IF k = 4 THEN
        IF ~cl.should_stop /\ lk.is_connected THEN Await(Pc("sleep", ""))
        ELSE IF lk.is_connected THEN Run_stopall(5, cl, lk)
        ELSE [next |-> Pc("done", ""), emit |-> Some("Central requested"),
              error |-> None, stops |-> {}, dead |-> FALSE]
    ELSE IF k \in 5..7 THEN
        IF lk.is_connected
        THEN [Await(Pc("stop", CharOrder[k - 4])) EXCEPT !.stops = {CharOrder[k - 4]}]
        ELSE Raised("Not connected", {CharOrder[k - 4]}, TRUE)
    ELSE [Await(Pc("disconnect", "")) EXCEPT !.dead = ~lk.is_connected]

RECURSIVE Run(_, _, _)
Run(k, cl, lk) ==
    IF k \in 1..3 THEN
        IF CharOrder[k] \notin cl.char_uuids THEN Run(k + 1, cl, lk)
        ELSE IF lk.is_connected THEN Await(Pc("start", CharOrder[k]))
        ELSE Raised("Not connected", {}, FALSE)
    ELSE IF k = 4 THEN
        IF ~cl.should_stop /\ lk.is_connected THEN Await(Pc("sleep", ""))
        ELSE IF lk.is_connected THEN Run(5, cl, lk)
        ELSE [next |-> Pc("done", ""), emit |-> Some("Central requested"),
              error |-> None, stops |-> {}, dead |-> FALSE]
    ELSE IF k \in 5..7 THEN
        IF CharOrder[k - 4] \notin cl.char_uuids THEN Run(k + 1, cl, lk)
        ELSE IF lk.is_connected
        THEN [Await(Pc("stop", CharOrder[k - 4])) EXCEPT !.stops = {CharOrder[k - 4]}]
        ELSE Raised("Not connected", {CharOrder[k - 4]}, TRUE)
    ELSE [Await(Pc("disconnect", "")) EXCEPT !.dead = ~lk.is_connected]

\* the worker goes on from program point k with client cl, link lk, queue q
\* and session record ob; `finally` asks the thread to quit when it is done
Advance(k, cl, lk, q, ob) ==
    LET r == Run(k, cl, lk) IN
    /\ client' = [cl EXCEPT !.pc = r.next]
    /\ link' = lk
    /\ uiQueue' = IF IsNone(r.emit) THEN q
                  ELSE Append(q, Sig("disconnected", Get(r.emit)))
    /\ obs' = [ob EXCEPT
                 !.disc_emits = IF IsNone(r.emit) THEN @ ELSE @ + 1,
                 !.reason = IF IsNone(r.emit) THEN @ ELSE r.emit,
                 !.error = IF IsNone(r.error) THEN @ ELSE r.error,
                 !.stop_calls = @ \cup r.stops,
                 !.dead_calls = @ \/ r.dead,
                 !.disc_called = @ \/ r.next.op = "disconnect",
                 !.polled = @ \/ r.next.op = "sleep"]

\* except exc.BleakError as e: self.disconnected.emit(str(e)); finally: quit
Except_silent(text) ==
    /\ client' = [client EXCEPT !.pc = Pc("done", "")]
    /\ obs' = [obs EXCEPT !.error = Some(text)]
    /\ UNCHANGED <<link, uiQueue>>

Except(text) ==
    /\ client' = [client EXCEPT !.pc = Pc("done", "")]
    /\ uiQueue' = Append(uiQueue, Sig("disconnected", text))
    /\ obs' = [obs EXCEPT !.disc_emits = @ + 1,
                          !.reason = Some(text),
                          !.error = Some(text)]
    /\ UNCHANGED link

\* an awaited call may fail: always once the link is down, and while it is
\* up when the run's environment has library faults
MayFail == ~link.is_connected \/ env.faults

\* what the library reports when an awaited call fails
ErrText == IF link.is_connected THEN "Operation failed" ELSE "Not connected"

sessVars == <<client, link, uiQueue, obs>>
otherVars == <<emitted, scanner, rec, env>>
winVars == <<win, leaked>>

\* await self._bleak.connect(timeout=10.0) completes
WorkerConnect ==
    /\ client.pc.op = "connect"
    /\ \/ /\ client' = [client EXCEPT !.pc = Pc("get_services", "")]
          /\ link' = [link EXCEPT !.is_connected = TRUE]
          /\ uiQueue' = Append(uiQueue, Sig("connected", <<>>))
          /\ UNCHANGED obs
       \/ Except("Device not found")
       \/ \* the timeout expires: asyncio.TimeoutError, which is no BleakError
          /\ client' = [client EXCEPT !.pc = Pc("done", "")]
          /\ obs' = [obs EXCEPT !.crashed = TRUE]
          /\ UNCHANGED <<link, uiQueue>>
    /\ UNCHANGED <<win, leaked, cbIn, used, otherVars>>

\* await self._bleak.get_services() completes
WorkerGetServices ==
    /\ client.pc.op = "get_services"
    /\ \/ \E cs \in env.charsets :
            Advance(1, [client EXCEPT !.char_uuids = cs], link, uiQueue, obs)
       \/ MayFail /\ Except(ErrText)
    /\ UNCHANGED <<win, leaked, cbIn, used, otherVars>>

\* await self._bleak.start_notify(...) completes
WorkerStartNotify ==
    /\ client.pc.op = "start"
    /\ \/ Advance(Idx(client.pc.ch) + 1, client,
                  [link EXCEPT !.notifying = @ \cup {client.pc.ch}],
                  uiQueue,
                  [obs EXCEPT !.started = @ \cup {client.pc.ch}])
       \/ MayFail /\ Except(ErrText)
    /\ UNCHANGED <<win, leaked, cbIn, used, otherVars>>

\* await asyncio.sleep(0.1) completes: back to the loop's test
WorkerSleep ==
    /\ client.pc.op = "sleep"
    /\ Advance(4, client, link, uiQueue, obs)
    /\ UNCHANGED <<win, leaked, cbIn, used, otherVars>>

\* await self._bleak.stop_notify(...) completes
WorkerStopNotify ==
    /\ client.pc.op = "stop"
    /\ \/ Advance(Idx(client.pc.ch) + 5, client,
                  [link EXCEPT !.notifying = @ \ {client.pc.ch}],
                  uiQueue, obs)
       \/ MayFail /\ Except(ErrText)
    /\ UNCHANGED <<win, leaked, cbIn, used, otherVars>>

\* await self._bleak.disconnect() completes, then
\* self.disconnected.emit("Central requested")
WorkerDisconnect ==
    /\ client.pc.op = "disconnect"
    /\ \/ /\ client' = [client EXCEPT !.pc = Pc("done", "")]
          /\ link' = [link EXCEPT !.is_connected = FALSE,
                                  !.pendingCb = @ \/ link.is_connected]
          /\ uiQueue' = Append(uiQueue, Sig("disconnected", "Central requested"))
          /\ obs' = [obs EXCEPT !.disc_emits = @ + 1,
                                !.reason = Some("Central requested")]
       \/ MayFail /\ Except(ErrText)
    /\ UNCHANGED <<win, leaked, cbIn, used, otherVars>>

(***************************************************************************)
(* Tasks of the worker's event loop, and the peripheral.                   *)
(***************************************************************************)

\* the coroutine request_disconnect scheduled: self._bleak.disconnect()
LoopDisconnect ==
    /\ Live
    /\ link.pendingDisc
    /\ link' = [link EXCEPT !.pendingDisc = FALSE,
                            !.is_connected = FALSE,
                            !.pendingCb = @ \/ link.is_connected]
    /\ UNCHANGED <<client, win, leaked, uiQueue, obs, cbIn, used, otherVars>>

\* BLEClient._on_remote_disconnect, the BleakClient's disconnected_callback
OnRemoteDisconnect_reset ==
    /\ Live
    /\ link.pendingCb
    /\ client' = [client EXCEPT !.should_stop = FALSE]
    /\ link' = [link EXCEPT !.pendingCb = FALSE]
    /\ UNCHANGED <<win, leaked, uiQueue, obs, cbIn, used, otherVars>>

OnRemoteDisconnect ==
    /\ Live
    /\ link.pendingCb
    /\ client' = [client EXCEPT !.should_stop = TRUE]
    /\ link' = [link EXCEPT !.pendingCb = FALSE]
    /\ UNCHANGED <<win, leaked, uiQueue, obs, cbIn, used, otherVars>>

\* the peer drops the link
RemoteDrop ==
    /\ Live
    /\ link.is_connected
    /\ link' = [link EXCEPT !.is_connected = FALSE, !.pendingCb = TRUE]
    /\ UNCHANGED <<client, win, leaked, uiQueue, obs, cbIn, used, otherVars>>

\* feature frames the peripheral sends: "a,b"  "1,2"  "1,2,3"  "\n"
FeatFrames ==
    { <<97, 44, 98>>, <<49, 44, 50>>, <<49, 44, 50, 44, 51>>, <<10>> }

RawFrame(n, a, b) == [i \in 1..n |-> (a * i + b) % 256]

\* raw frames the peripheral sends while a window is attached
StreamFrames == { RawFrame(120, 37, 200), RawFrame(12, 37, 200) }

Subscribed(c) == Live /\ link.is_connected /\ c \in link.notifying

CountSig(emits, name) ==
    Cardinality({i \in 1..Len(emits) : emits[i].sig = name})

\* a notification on FEATURE_UUID: _feat_cb runs on the worker's loop;
\* feature_header and feature_values are queued for the window
FeatNotify ==
    /\ Subscribed("feat")
    /\ used.frames < MaxFrames
    /\ \E data \in env.feat_frames :
        LET r == FeatCb(client.feat_headers, data) IN
        /\ client' = [client EXCEPT !.feat_headers = r.feat_headers]
        /\ uiQueue' = uiQueue \o r.emits
        /\ obs' = [obs EXCEPT !.hdr_emits = @ + CountSig(r.emits, "feature_header")]
        /\ cbIn' = [kind |-> "feat", data |-> data, ts |-> 0,
                    before |-> client.feat_headers, out |-> r.emits]
    /\ used' = [used EXCEPT !.frames = @ + 1]
    /\ UNCHANGED <<link, win, leaked, otherVars>>

\* a notification on STREAM_UUID: _raw_cb; packet_ready is queued for the window
RawNotify ==
    /\ Subscribed("raw")
    /\ used.frames < MaxFrames
    /\ \E data \in env.raw_frames, ts \in env.clock :
        LET out == RawCb(data, ts) IN
        /\ uiQueue' = uiQueue \o out
        /\ cbIn' = [kind |-> "raw", data |-> data, ts |-> ts,
                    before |-> None, out |-> out]
    /\ used' = [used EXCEPT !.frames = @ + 1]
    /\ UNCHANGED <<client, link, win, leaked, obs, otherVars>>

\* a notification on PRED_UUID: _pred_cb; connect_selected connects no slot
\* to prediction_ready, so the label reaches no one
PredNotify ==
    /\ Subscribed("pred")
    /\ used.frames < MaxFrames
    /\ \E data \in env.pred_frames :
        LET out == PredCb(data) IN
        /\ emitted' = emitted \o out
        /\ cbIn' = [kind |-> "pred", data |-> data, ts |-> 0,
                    before |-> None, out |-> out]
    /\ used' = [used EXCEPT !.frames = @ + 1]
    /\ UNCHANGED <<client, link, win, leaked, uiQueue, obs, scanner, rec, env>>

(***************************************************************************)
(* MainWindow: button handlers and the slots of the queued signals, all on *)
(* the UI thread.                                                          *)
(***************************************************************************)

\* PlotWidget defines add_sample only: self.plot.show_feature_headers(...)
\* raises AttributeError, which ends the slot that calls it
PlotWidget_has_show_feature_headers == FALSE

\* BLEClient.request_disconnect, called on the UI thread
request_disconnect ==
    /\ client' = [client EXCEPT !.should_stop = TRUE]
    /\ link' = [link EXCEPT
                  !.pendingDisc = @ \/ (client.bleak /\ link.is_connected)]

\* MainWindow.force_disconnect
ForceDisconnect ==
    /\ win.btn_disconnect
    /\ IF win.client THEN request_disconnect ELSE UNCHANGED <<client, link>>
    /\ UNCHANGED <<win, leaked, uiQueue, obs, cbIn, used, otherVars>>

\* MainWindow.connect_selected: with a client held or nothing selected it
\* only shows a message box
ConnectSelected ==
    /\ win.btn_connect
    /\ ~win.client
    /\ win.currentItem # 0
    /\ win' = [win EXCEPT
                 !.status = <<"Connecting", win.device_list[win.currentItem].address>>,
                 !.client = TRUE]
    /\ client' = BLEClient
    /\ link' = NoLink
    /\ obs' = NoObs
    /\ cbIn' = NoCbIn
    /\ UNCHANGED <<leaked, uiQueue, used, otherVars>>

\* MainWindow._on_connected
OnConnected ==
    /\ uiQueue # <<>>
    /\ Head(uiQueue).sig = "connected"
    /\ uiQueue' = Tail(uiQueue)
    /\ win' = [win EXCEPT !.status = <<"Connected">>,
                          !.btn_connect = FALSE,
                          !.btn_disconnect = TRUE]
    /\ UNCHANGED <<client, link, leaked, obs, cbIn, used, otherVars>>

\* a reference to recorder r (or None) is overwritten or cleared
Drops(r) == ~IsNone(r) /\ ~Get(r).closed

\* `if r: r.close()`
CloseIfAny_noclose(r) == r

CloseIfAny(r) == IF IsNone(r) THEN None ELSE Some(close(Get(r)))

\* MainWindow.stop_rec: both recorders are closed, then both references
\* are cleared
stop_rec(w) ==
    [w EXCEPT !.recording = FALSE, !.raw_rec = None, !.feat_rec = None,
              !.btn_start = TRUE, !.btn_stop = FALSE]

\* whether stop_rec lets go of a recorder that is still open
stop_rec_drops(w) ==
    Drops(CloseIfAny(w.raw_rec)) \/ Drops(CloseIfAny(w.feat_rec))

\* MainWindow._on_disconnected
OnDisconnected ==
    /\ uiQueue # <<>>
    /\ Head(uiQueue).sig = "disconnected"
    /\ uiQueue' = Tail(uiQueue)
    /\ win' = [stop_rec([win EXCEPT !.status = <<"Disc", Head(uiQueue).arg>>,
                                    !.btn_connect = TRUE,
                                    !.btn_disconnect = FALSE])
               EXCEPT !.client = FALSE]
    /\ leaked' = (leaked \/ stop_rec_drops(win))
    /\ UNCHANGED <<client, link, obs, cbIn, used, otherVars>>

\* MainWindow.start_rec
StartRec ==
    /\ win.btn_start
    /\ LET raw == CSVRecorder("raw", default_headers)
           feat == CSVRecorder("features",
                               <<"segment", "timestamp_ms">>
                                   \o Get(win.feat_headers))
       IN
       IF ~IsNone(win.feat_headers)
       THEN /\ win' = [win EXCEPT !.raw_rec = Some(raw), !.feat_rec = Some(feat),
                                  !.recording = TRUE,
                                  !.status = <<"Recording">>,
                                  !.btn_start = FALSE, !.btn_stop = TRUE]
            /\ leaked' = (leaked \/ Drops(win.raw_rec) \/ Drops(win.feat_rec))
       ELSE /\ win' = [win EXCEPT !.raw_rec = Some(raw),
                                  !.recording = TRUE,
                                  !.status = <<"Recording">>,
                                  !.btn_start = FALSE, !.btn_stop = TRUE]
            /\ leaked' = (leaked \/ Drops(win.raw_rec))
    /\ UNCHANGED <<client, link, uiQueue, obs, cbIn, used, otherVars>>

\* MainWindow.stop_rec from the Stop button
StopRec ==
    /\ win.btn_stop
    /\ win' = stop_rec(win)
    /\ leaked' = (leaked \/ stop_rec_drops(win))
    /\ UNCHANGED <<client, link, uiQueue, obs, cbIn, used, otherVars>>

\* MainWindow._change_segment(+1 / -1)
ChangeSegment ==
    /\ \E d \in {1, -1} :
        /\ win.segment + d <= MaxSegment
        /\ win' = [win EXCEPT !.segment = IF @ + d < 1 THEN 1 ELSE @ + d]
    /\ UNCHANGED <<client, link, leaked, uiQueue, obs, cbIn, used, otherVars>>

\* MainWindow._handle_raw (the plot's labels are not modelled)
HandleRaw ==
    /\ uiQueue # <<>>
    /\ Head(uiQueue).sig = "packet_ready"
    /\ uiQueue' = Tail(uiQueue)
    /\ win' = IF win.recording /\ ~IsNone(win.raw_rec)
              THEN [win EXCEPT !.raw_rec =
                      Some(add_rows_with_prefix(Get(@), win.segment,
                                                Head(uiQueue).arg))]
              ELSE win
    /\ UNCHANGED <<client, link, leaked, obs, cbIn, used, otherVars>>

\* MainWindow._handle_header
HandleHeader_reopen ==
    /\ uiQueue # <<>>
    /\ Head(uiQueue).sig = "feature_header"
    /\ uiQueue' = Tail(uiQueue)
    /\ LET headers == Head(uiQueue).arg IN
       IF win.recording
       THEN win' = [win EXCEPT
                      !.feat_headers = Some(headers),
                      !.feat_rec =
                          Some(CSVRecorder("features",
                                 <<"segment", "timestamp_ms">> \o headers))]
       ELSE win' = [win EXCEPT !.feat_headers = Some(headers)]
    /\ UNCHANGED <<client, link, leaked, obs, cbIn, used, otherVars>>

HandleHeader ==
    /\ uiQueue # <<>>
    /\ Head(uiQueue).sig = "feature_header"
    /\ uiQueue' = Tail(uiQueue)
    /\ LET headers == Head(uiQueue).arg IN
       IF PlotWidget_has_show_feature_headers
          /\ win.recording /\ IsNone(win.feat_rec)
       THEN win' = [win EXCEPT
                      !.feat_headers = Some(headers),
                      !.feat_rec =
                          Some(CSVRecorder("features",
                                 <<"segment", "timestamp_ms">> \o headers))]
       ELSE win' = [win EXCEPT !.feat_headers = Some(headers)]
    /\ UNCHANGED <<client, link, leaked, obs, cbIn, used, otherVars>>

\* MainWindow._handle_values
HandleValues ==
    /\ uiQueue # <<>>
    /\ Head(uiQueue).sig = "feature_values"
    /\ uiQueue' = Tail(uiQueue)
    /\ \E ts \in env.clock :
        win' = IF win.recording /\ ~IsNone(win.feat_rec)
               THEN [win EXCEPT !.feat_rec =
                       Some(add_rows_with_prefix(Get(@), win.segment,
                                                 <<<<ts>> \o Head(uiQueue).arg>>))]
               ELSE win
    /\ UNCHANGED <<client, link, leaked, obs, cbIn, used, otherVars>>

(***************************************************************************)
(* Sessions: the application with a device listed and selected (a scan has *)
(* run), a device with any of the three characteristics, a library that    *)
(* may fail any call, and a peer that may drop the link. No frames arrive. *)
(***************************************************************************)

EnvSession ==
    [charsets |-> SUBSET Chars, faults |-> TRUE, clock |-> Timestamps,
     feat_frames |-> {}, raw_frames |-> {}, pred_frames |-> {},
     discover |-> {}]

\* the device list after a scan that found one device, which the user picked
Scanned(w) ==
    [w EXCEPT !.device_list = <<BLEDeviceInfo(CHOOSE d \in Devices : ~IsNone(d.name))>>,
              !.currentItem = 1,
              !.status = <<"Done">>]


InitWith(e) ==
    /\ client = NoClient
    /\ link = NoLink
    /\ win = Scanned(MainWindow)
    /\ leaked = FALSE
    /\ uiQueue = <<>>
    /\ obs = NoObs
    /\ cbIn = NoCbIn
    /\ emitted = <<>>
    /\ scanner = NoScanner
    /\ rec = NoRec
    /\ used = NoUsed
    /\ env = e

Init == InitWith(EnvSession)

Worker ==
    \/ WorkerConnect
    \/ WorkerGetServices
    \/ WorkerStartNotify
    \/ WorkerSleep
    \/ WorkerStopNotify
    \/ WorkerDisconnect

Session ==
    \/ Worker
    \/ LoopDisconnect
    \/ OnRemoteDisconnect
    \/ ForceDisconnect
    \/ ConnectSelected
    \/ OnConnected
    \/ OnDisconnected

Next ==
    \/ Session
    \/ RemoteDrop

Spec == Init /\ [][Next]_vars

\* asyncio.sleep(0.1) returns and the loop's test runs again
FairSpec == Spec /\ WF_vars(WorkerSleep)

(***************************************************************************)
(* Streaming and recording: a device with the raw and feature              *)
(* characteristics sends frames while the user starts and stops            *)
(* recordings, disconnects and reconnects.                                 *)
(***************************************************************************)

EnvData ==
    [charsets |-> {{"raw", "feat"}}, faults |-> FALSE, clock |-> {1000},
     feat_frames |-> FeatFrames, raw_frames |-> StreamFrames,
     pred_frames |-> {}, discover |-> {}]

InitData == InitWith(EnvData)

NextData ==
    \/ Session
    \/ FeatNotify
    \/ RawNotify
    \/ StartRec
    \/ StopRec
    \/ ChangeSegment
    \/ HandleRaw
    \/ HandleHeader
    \/ HandleValues

SpecData == InitData /\ [][NextData]_vars

(***************************************************************************)
(* Decoding: a connected client, subscribed to the three characteristics   *)
(* and polling, is sent raw and prediction frames.                         *)
(***************************************************************************)

\* a frame whose 16-bit words all have low byte lo and high byte hi
WordFrame(n, lo, hi) == [i \in 1..n |-> IF i % 2 = 1 THEN lo ELSE hi]

RawFrames ==
    { RawFrame(n, 37, 200) : n \in {0, 12, 119, 120, 121, 240} }
        \cup { WordFrame(120, 0, 128), WordFrame(120, 255, 127),
               WordFrame(120, 255, 255), WordFrame(118, 1, 0) }

\* "PREDICT:2"  " PREDICT:2\n"  "PREDICT:a:b"  "PRED:2"  "\xffPREDICT:1"
\* "PREDICT: 3 "  "PREDICT:\xc3\xa9"  "PREDICT:"  ""  "predict:2"  "xPREDICT:1"
PredFrames ==
    { <<80, 82, 69, 68, 73, 67, 84, 58, 50>>,
      <<32, 80, 82, 69, 68, 73, 67, 84, 58, 50, 10>>,
      <<80, 82, 69, 68, 73, 67, 84, 58, 97, 58, 98>>,
      <<80, 82, 69, 68, 58, 50>>,
      <<255, 80, 82, 69, 68, 73, 67, 84, 58, 49>>,
      <<80, 82, 69, 68, 73, 67, 84, 58, 32, 51, 32>>,
      <<80, 82, 69, 68, 73, 67, 84, 58, 195, 169>>,
      <<80, 82, 69, 68, 73, 67, 84, 58>>,
      <<>>,
      <<112, 114, 101, 100, 105, 99, 116, 58, 50>>,
      <<120, 80, 82, 69, 68, 73, 67, 84, 58, 49>> }

EnvDecode ==
    [charsets |-> {Chars}, faults |-> FALSE, clock |-> Timestamps,
     feat_frames |-> {}, raw_frames |-> RawFrames, pred_frames |-> PredFrames,
     discover |-> {}]

InitDecode ==
    /\ client = [BLEClient EXCEPT !.pc = Pc("sleep", ""), !.char_uuids = Chars]
    /\ link = [NoLink EXCEPT !.is_connected = TRUE, !.notifying = Chars]
    /\ win = [Scanned(MainWindow) EXCEPT !.client = TRUE,
                                         !.status = <<"Connected">>,
                                         !.btn_connect = FALSE,
                                         !.btn_disconnect = TRUE]
    /\ leaked = FALSE
    /\ uiQueue = <<>>
    /\ obs = [NoObs EXCEPT !.started = Chars, !.polled = TRUE]
    /\ cbIn = NoCbIn
    /\ emitted = <<>>
    /\ scanner = NoScanner
    /\ rec = NoRec
    /\ used = NoUsed
    /\ env = EnvDecode

NextDecode ==
    \/ RawNotify
    \/ PredNotify
    \/ HandleRaw

SpecDecode == InitDecode /\ [][NextDecode]_vars

(***************************************************************************)
(* A CSVRecorder under any sequence of add_rows, add_rows_with_prefix and  *)
(* close calls.                                                            *)
(***************************************************************************)

RecRows ==
    { <<>>, <<<<1000, 1, 2>>>>, <<<<1000, 1>>, <<2000, 2>>>> }

RecAddRows ==
    /\ used.calls < MaxCalls
    /\ \E rows \in RecRows : rec' = add_rows(rec, rows)
    /\ used' = [used EXCEPT !.calls = @ + 1,
                            !.late = IF rec.closed THEN @ + 1 ELSE @]
    /\ UNCHANGED <<client, link, win, leaked, uiQueue, obs, cbIn, emitted,
                   scanner, env>>

RecAddRowsWithPrefix ==
    /\ used.calls < MaxCalls
    /\ \E prefix \in 1..2, rows \in RecRows :
        rec' = add_rows_with_prefix(rec, prefix, rows)
    /\ used' = [used EXCEPT !.calls = @ + 1,
                            !.late = IF rec.closed THEN @ + 1 ELSE @]
    /\ UNCHANGED <<client, link, win, leaked, uiQueue, obs, cbIn, emitted,
                   scanner, env>>

RecClose ==
    /\ used.calls < MaxCalls
    /\ rec' = close(rec)
    /\ used' = [used EXCEPT !.calls = @ + 1, !.closes = @ + 1]
    /\ UNCHANGED <<client, link, win, leaked, uiQueue, obs, cbIn, emitted,
                   scanner, env>>

InitRec ==
    /\ client = NoClient
    /\ link = NoLink
    /\ win = MainWindow
    /\ leaked = FALSE
    /\ uiQueue = <<>>
    /\ obs = NoObs
    /\ cbIn = NoCbIn
    /\ emitted = <<>>
    /\ scanner = NoScanner
    /\ rec \in { CSVRecorder("session", None),
                 CSVRecorder("features", <<"segment", "timestamp_ms", "a">>) }
    /\ used = NoUsed
    /\ env = EnvSession

NextRec ==
    \/ RecAddRows
    \/ RecAddRowsWithPrefix
    \/ RecClose

SpecRec == InitRec /\ [][NextRec]_vars

(***************************************************************************)
(* Scanning: MainWindow.scan_devices and the DeviceScanner's worker.       *)
(***************************************************************************)

\* what BleakScanner.discover may return: up to MaxDevices devices
RECURSIVE DeviceLists(_)
DeviceLists(n) ==
    IF n = 0 THEN {<<>>}
    ELSE DeviceLists(n - 1)
         \cup { Append(l, d) : l \in DeviceLists(n - 1), d \in Devices }

EnvScan ==
    [charsets |-> {}, faults |-> TRUE, clock |-> Timestamps,
     feat_frames |-> {}, raw_frames |-> {}, pred_frames |-> {},
     discover |-> DeviceLists(MaxDevices)]

\* MainWindow.scan_devices; with a client held it returns at once
ScanDevices ==
    /\ win.btn_scan
    /\ ~win.client
    /\ win' = [win EXCEPT !.device_list = <<>>, !.currentItem = 0,
                          !.btn_scan = FALSE, !.status = <<"Scanning">>]
    /\ scanner' = [pc |-> "discover", found |-> 0, finished |-> 0]
    /\ UNCHANGED <<client, link, leaked, uiQueue, obs, cbIn, emitted, rec,
                   used, env>>

\* DeviceScanner._scan_async: asyncio.run(do_scan()), then the queued quit
ScannerDiscover ==
    /\ scanner.pc = "discover"
    /\ \/ \E ds \in env.discover :
            /\ uiQueue' = uiQueue
                   \o [i \in 1..Len(ds) |-> Sig("device_found", BLEDeviceInfo(ds[i]))]
                   \o <<Sig("scan_finished", <<>>)>>
            /\ scanner' = [pc |-> "quit", found |-> Len(ds),
                           finished |-> scanner.finished + 1]
       \/ \* discover raises (no adapter, Bluetooth off): the exception
          \* leaves do_scan, asyncio.run and the slot; quit is never invoked
          /\ env.faults
          /\ scanner' = [scanner EXCEPT !.pc = "raised"]
          /\ UNCHANGED uiQueue
    /\ UNCHANGED <<client, link, win, leaked, obs, cbIn, emitted, rec, used, env>>

\* the worker thread handles the queued quit and ends
ScannerQuit ==
    /\ scanner.pc = "quit"
    /\ scanner' = [scanner EXCEPT !.pc = "finished"]
    /\ UNCHANGED <<client, link, win, leaked, uiQueue, obs, cbIn, emitted, rec,
                   used, env>>

\* the lambda connected to device_found
OnDeviceFound ==
    /\ uiQueue # <<>>
    /\ Head(uiQueue).sig = "device_found"
    /\ uiQueue' = Tail(uiQueue)
    /\ win' = [win EXCEPT !.device_list = Append(@, Head(uiQueue).arg)]
    /\ UNCHANGED <<client, link, leaked, obs, cbIn, emitted, scanner, rec,
                   used, env>>

\* the lambda connected to scan_finished
OnScanFinished ==
    /\ uiQueue # <<>>
    /\ Head(uiQueue).sig = "scan_finished"
    /\ uiQueue' = Tail(uiQueue)
    /\ win' = [win EXCEPT !.status = <<"Done">>, !.btn_scan = TRUE]
    /\ UNCHANGED <<client, link, leaked, obs, cbIn, emitted, scanner, rec,
                   used, env>>

\* the user picks an item of the device list
SelectDevice ==
    /\ \E i \in 1..Len(win.device_list) :
        /\ i # win.currentItem
        /\ win' = [win EXCEPT !.currentItem = i]
    /\ UNCHANGED <<client, link, leaked, uiQueue, obs, cbIn, emitted, scanner,
                   rec, used, env>>

InitScan ==
    /\ client = NoClient
    /\ link = NoLink
    /\ win = MainWindow
    /\ leaked = FALSE
    /\ uiQueue = <<>>
    /\ obs = NoObs
    /\ cbIn = NoCbIn
    /\ emitted = <<>>
    /\ scanner = NoScanner
    /\ rec = NoRec
    /\ used = NoUsed
    /\ env = EnvScan

NextScan ==
    \/ ScanDevices
    \/ ScannerDiscover
    \/ ScannerQuit
    \/ OnDeviceFound
    \/ OnScanFinished
    \/ SelectDevice

SpecScan == InitScan /\ [][NextScan]_vars

(***************************************************************************)
(* Properties.                                                             *)
(***************************************************************************)

NoneQueued(name) == \A i \in 1..Len(uiQueue) : uiQueue[i].sig # name

\* C1: a session that has ended, whatever way it ended, has emitted
\* disconnected(reason) exactly once, and once the window has handled that
\* signal it holds no client.
C1_DisconnectedExactlyOnce ==
    client.pc.op = "done" =>
        /\ obs.disc_emits = 1
        /\ NoneQueued("disconnected") => ~win.client

\* C2: a session ended by a library-level connection error has reported the
\* error's text as the disconnect reason, has called stop_notify for every
\* characteristic it subscribed to, and has not left the link connected
\* without calling disconnect.
C2_ErrorCleansUp ==
    (client.pc.op = "done" /\ ~IsNone(obs.error)) =>
        /\ obs.reason = obs.error
        /\ obs.started \subseteq obs.stop_calls
        /\ link.is_connected => obs.disc_called

\* number of comma-separated tokens of a feature frame's text
TokenCount(data) == Len(Split(Strip(DecodeIgnore(data)), 44))

\* C3: with a header stored, a feature frame whose token count differs from
\* the number of header fields emits no feature_values, and no row with
\* another number of values than the header has fields is in the feature file.
C3_ArityMismatchDropped ==
    /\ (cbIn.kind = "feat" /\ ~IsNone(cbIn.before)
            /\ TokenCount(cbIn.data) # Len(Get(cbIn.before)))
        => cbIn.out = <<>>
    /\ (~IsNone(win.feat_rec) /\ ~IsNone(client.feat_headers))
        => \A i \in 2..Len(Get(win.feat_rec).lines) :
              Len(Get(win.feat_rec).lines[i]) = 2 + Len(Get(client.feat_headers))

\* C4 as stated: the first feature frame of a connection, whatever its
\* content, is emitted as the header and stored.
C4_FirstFrameIsHeader ==
    (cbIn.kind = "feat" /\ IsNone(cbIn.before)) =>
        /\ Len(cbIn.out) = 1
        /\ cbIn.out[1].sig = "feature_header"
        /\ client.feat_headers = Some(cbIn.out[1].arg)

\* C4 amended: within one connection the first feature frame whose text is
\* not blank (after undecodable bytes are left out and whitespace is
\* stripped) is stored and emitted as the header whatever its content, a
\* blank frame is ignored, feature_header is emitted at most once, and no
\* later frame replaces the stored header or is emitted as a header.
C4_FirstNonBlankIsHeader ==
    /\ obs.hdr_emits <= 1
    /\ (obs.hdr_emits = 1) <=> ~IsNone(client.feat_headers)
    /\ cbIn.kind = "feat" =>
        LET blank == Strip(DecodeIgnore(cbIn.data)) = <<>> IN
        /\ (IsNone(cbIn.before) /\ ~blank) =>
              /\ Len(cbIn.out) = 1
              /\ cbIn.out[1].sig = "feature_header"
              /\ Len(cbIn.out[1].arg) = TokenCount(cbIn.data)
              /\ client.feat_headers = Some(cbIn.out[1].arg)
        /\ (IsNone(cbIn.before) /\ blank) =>
              /\ cbIn.out = <<>>
              /\ IsNone(client.feat_headers)
        /\ ~IsNone(cbIn.before) =>
              /\ client.feat_headers = cbIn.before
              /\ \A i \in 1..Len(cbIn.out) : cbIn.out[i].sig # "feature_header"

\* a numeric-looking first frame "1,2" became the header
C4_Witness ==
    /\ cbIn.kind = "feat"
    /\ IsNone(cbIn.before)
    /\ cbIn.data = <<49, 44, 50>>
    /\ cbIn.out = <<Sig("feature_header", <<<<49>>, <<50>>>>)>>
    /\ obs.hdr_emits = 1

\* a 16-bit word read as two's complement
S16(u) == ((u + 32768) % 65536) - 32768

\* C5: a raw frame of exactly 120 bytes emits one packet of exactly ten
\* rows, each the call's timestamp followed by the six little-endian signed
\* 16-bit values at its place in the frame; a frame of any other length
\* emits nothing and changes no state.
C5_RawDecode ==
    [][(used'.frames = used.frames + 1 /\ cbIn'.kind = "raw") =>
        IF Len(cbIn'.data) = 120
        THEN /\ Len(cbIn'.out) = 1
             /\ cbIn'.out[1].sig = "packet_ready"
             /\ uiQueue' = Append(uiQueue, cbIn'.out[1])
             /\ Len(cbIn'.out[1].arg) = 10
             /\ \A k \in 1..10 :
                   LET row == cbIn'.out[1].arg[k] IN
                   /\ Len(row) = 7
                   /\ row[1] = cbIn'.ts
                   /\ \A j \in 1..6 :
                         row[j + 1] = S16(cbIn'.data[12 * (k - 1) + 2 * j - 1]
                                          + 256 * cbIn'.data[12 * (k - 1) + 2 * j])
        ELSE /\ cbIn'.out = <<>>
             /\ UNCHANGED <<client, link, win, leaked, uiQueue, obs, emitted>>
      ]_vars

\* a 120-byte frame with negative values was decoded and queued
C5_Witness ==
    /\ cbIn.kind = "raw"
    /\ Len(cbIn.data) = 120
    /\ Len(cbIn.out) = 1
    /\ cbIn.out[1].arg[10][7] < 0
    /\ uiQueue # <<>>

\* C6: a prediction frame that cannot be decoded, or whose stripped text
\* does not start with "PREDICT:", emits no prediction_ready; one that has
\* the prefix emits exactly the text after the first colon.
C6_PredictionPrefix ==
    cbIn.kind = "pred" =>
        LET d == Decode(cbIn.data)
            msg == Strip(d.text)
        IN
        IF d.ok /\ StartsWith(msg, PREDICT_PREFIX)
        THEN \E i \in 1..Len(msg) :
                /\ msg[i] = 58
                /\ \A j \in 1..(i - 1) : msg[j] # 58
                /\ cbIn.out = <<Sig("prediction_ready", SubSeq(msg, i + 1, Len(msg)))>>
        ELSE cbIn.out = <<>>

\* "PREDICT:a:b" gave the label "a:b"
C6_Witness ==
    /\ cbIn.kind = "pred"
    /\ cbIn.out = <<Sig("prediction_ready", <<97, 58, 98>>)>>
    /\ emitted # <<>>

\* C7: the underlying file is closed at most once however often close is
\* called, and an append after the first close writes nothing and raises
\* no error.
C7_CloseIdempotent ==
    /\ [](rec.file_closes <= 1 /\ ~rec.raised)
    /\ [][rec.closed => (rec'.closed /\ rec'.lines = rec.lines)]_vars

\* close was called twice and an append was issued after the first
C7_Witness ==
    /\ used.closes >= 2
    /\ used.late >= 1
    /\ rec.file_closes = 1
    /\ rec.closed

\* C8: only characteristics present on the device are subscribed; a session
\* that gets past the subscriptions has subscribed to all those present, an
\* absent one being skipped without an error or a disconnected signal; and
\* stop_notify is only called for characteristics that were subscribed.
C8_SubscribesPresent ==
    /\ obs.started \subseteq client.char_uuids
    /\ obs.stop_calls \subseteq obs.started
    /\ client.pc.op \in {"sleep", "stop", "disconnect"} =>
          /\ obs.started = client.char_uuids
          /\ obs.disc_emits = 0
          /\ IsNone(obs.error)
    /\ (client.pc.op = "done" /\ obs.reason = Some("Central requested")) =>
          obs.started = client.char_uuids

\* a device with the feature characteristic only: the session polled, and
\* its teardown unsubscribed from that one alone
C8_Witness ==
    /\ client.pc.op = "done"
    /\ client.char_uuids = {"feat"}
    /\ obs.started = {"feat"}
    /\ obs.stop_calls = {"feat"}
    /\ obs.polled
    /\ obs.reason = Some("Central requested")

\* C9: within one session the stop flag, once true, stays true, whichever
\* thread wrote it, and once it is true the polling loop is left.
C9_StopFlagOneWay ==
    /\ [][(client.should_stop /\ ~(~win.client /\ win'.client))
            => client'.should_stop]_vars
    /\ (client.should_stop /\ client.pc.op = "sleep") ~> (client.pc.op # "sleep")

\* the UI thread set the flag with the link up, and the loop was left
C9_Witness ==
    /\ client.should_stop
    /\ obs.polled
    /\ link.pendingDisc
    /\ client.pc.op \in {"stop", "disconnect"}

\* C10: once the scan worker has left do_scan, scan_finished has been
\* emitted exactly once (after the scan's device_found signals) and the
\* worker thread has been asked to quit.
C10_ScanFinishes ==
    scanner.pc \in {"quit", "finished", "raised"} =>
        /\ scanner.finished = 1
        /\ scanner.pc # "raised"

\* the lines of a recording file are kept and only added to
Extends(r, r2) ==
    /\ Len(Get(r2).lines) >= Len(Get(r).lines)
    /\ \A i \in 1..Len(Get(r).lines) : Get(r2).lines[i] = Get(r).lines[i]

\* the UI thread takes a feature_header signal off its queue
HeaderHandled ==
    /\ uiQueue # <<>>
    /\ Head(uiQueue).sig = "feature_header"
    /\ uiQueue' = Tail(uiQueue)

\* C11: the first line of a recording file the window holds is the header
\* row it was opened with; while the window holds a file its lines are only
\* added to, so the header row is never rewritten or replaced; and handling
\* a feature header while a feature file is open leaves that file as it is
\* and opens no other.
C11_HeaderImmutable ==
    /\ [](/\ ~IsNone(win.raw_rec) => Get(win.raw_rec).lines[1] = default_headers
          /\ ~IsNone(win.feat_rec) =>
                /\ Len(Get(win.feat_rec).lines[1]) >= 2
                /\ SubSeq(Get(win.feat_rec).lines[1], 1, 2)
                      = <<"segment", "timestamp_ms">>)
    /\ [][/\ (~IsNone(win.raw_rec) /\ ~IsNone(win'.raw_rec))
                => Extends(win.raw_rec, win'.raw_rec)
          /\ (~IsNone(win.feat_rec) /\ ~IsNone(win'.feat_rec))
                => Extends(win.feat_rec, win'.feat_rec)
          /\ (HeaderHandled /\ ~IsNone(win.feat_rec))
                => (win'.feat_rec = win.feat_rec /\ leaked' = leaked)]_vars

\* a header other than the open feature file's own has been handled while
\* that file was open
C11_Witness ==
    /\ ~IsNone(win.feat_rec)
    /\ ~Get(win.feat_rec).closed
    /\ ~IsNone(win.feat_headers)
    /\ Get(win.feat_headers)
          # SubSeq(Get(win.feat_rec).lines[1], 3, Len(Get(win.feat_rec).lines[1]))

\* C12: handling a feature header while a recording is active and no
\* feature file is open opens a feature file whose header row is segment,
\* timestamp_ms and the received field names.
C12_HeaderOpensFeatureFile ==
    [][(HeaderHandled /\ win.recording /\ IsNone(win.feat_rec)) =>
          win'.feat_rec =
              Some(CSVRecorder("features",
                     <<"segment", "timestamp_ms">> \o Head(uiQueue).arg))]_vars

\* C13: in a session that reached its polling loop and whose stop flag is
\* set (here only through a user-requested disconnect: the peer never drops
\* the link and the library never fails on a live link), the worker has not
\* called stop_notify or disconnect on a link that was already down, and the
\* session, once ended, has ended with reason "Central requested".
C13_UserDisconnectClean ==
    (client.should_stop /\ obs.polled) =>
        /\ ~obs.dead_calls
        /\ client.pc.op = "done" => obs.reason = Some("Central requested")

\* the UI thread takes a disconnected signal off its queue
DisconnectedHandled ==
    /\ uiQueue # <<>>
    /\ Head(uiQueue).sig = "disconnected"
    /\ uiQueue' = Tail(uiQueue)

\* C14: the recording flag is true exactly when the window holds an open raw
\* recorder; with the flag false the window holds no recorder and no
\* recorder was let go of while open; and handling a disconnected signal
\* leaves recording off, no recorder held and none left open.
C14_RecordingFlag ==
    /\ [](/\ win.recording <=>
                (~IsNone(win.raw_rec) /\ ~Get(win.raw_rec).closed)
          /\ ~win.recording => (IsNone(win.raw_rec) /\ IsNone(win.feat_rec))
          /\ ~IsNone(win.feat_rec) => ~Get(win.feat_rec).closed
          /\ ~leaked)
    /\ [][DisconnectedHandled =>
            /\ ~win'.recording
            /\ IsNone(win'.raw_rec)
            /\ IsNone(win'.feat_rec)
            /\ ~leaked']_vars

\* a recording with both files open and rows written, the session's
\* disconnected signal next in the UI thread's queue
C14_Witness ==
    /\ win.recording
    /\ ~IsNone(win.raw_rec)
    /\ ~IsNone(win.feat_rec)
    /\ Len(Get(win.raw_rec).lines) >= 2
    /\ uiQueue # <<>>
    /\ Head(uiQueue).sig = "disconnected"

\* C15: every data row of the feature file the window holds has as many
\* value fields as the file's header row has feature names (each has the
\* segment and the timestamp in front).
C15_RowsMatchHeader ==
    ~IsNone(win.feat_rec) =>
        \A i \in 2..Len(Get(win.feat_rec).lines) :
            Len(Get(win.feat_rec).lines[i]) = Len(Get(win.feat_rec).lines[1])

====
